---- MODULE Spec2Model ----
(***************************************************************************)
(* Conversation structuring and analysis pipeline of bhd-gemini-ctx.       *)
(*                                                                         *)
(*   EnhancedGeminiExtractor   src/src/enhanced_gemini_extractor.py        *)
(*   GeminiConversationExtractor.extract_conversation_content              *)
(*                             src/src/gemini_conversation_extractor.py    *)
(*   ConversationAnalyzer      src/src/conversation_analyzer.py            *)
(*   GeminiCLI / HTTP callers  src/src/cli.py, src/src/simple_http_mcp.py  *)
(*                                                                         *)
(* Text is a sequence of lexical pieces (words, punctuation, whitespace    *)
(* runs, code spans); every string function of the source is computed on   *)
(* that sequence.  An optional value (Python None / a missing element) is  *)
(* a sequence of length 0 or 1.                                            *)
(***************************************************************************)
EXTENDS Integers, Sequences, FiniteSets, TLC

VARIABLES
  dom,       \* the DOM snapshot handed to the enhanced extractor
  page,      \* the page the selector-chain extractor queries
  pc,        \* which extractor is to run on the page, or "idle"/"done"
  ret,       \* what the last operation returned or raised
  extracts,  \* the structured_*.json files of the extracts directory, as glob lists them
  report,    \* the newest conversation_analysis_*.json, None before the first
  hashseed,  \* the string-hash seed of the running HTTP server process
  doc,       \* the record or the messages handed to a markdown writer
  temp_file, \* temp_conversion.html of the output directory, None when absent
  calls      \* the html_to_markdown calls in progress, per extraction worker

vars == <<dom, page, pc, ret, extracts, report, hashseed, doc, temp_file, calls>>

(***************************************************************************)
(* Bounds of the model.                                                    *)
(***************************************************************************)
MaxContainers == 2
MaxElements == 3
MaxFiles == 2
NumHashSeeds == 2
MaxFragments == 2
MaxMessages == 10
MaxLimit == 2

(***************************************************************************)
(* Generic helpers.                                                        *)
(***************************************************************************)
None == <<>>

Some(x) == <<x>>

IsNone(o) == Len(o) = 0

\* The element of a one-element set
TheOne(S) == CHOOSE x \in S : TRUE

Range(s) == {s[i] : i \in 1..Len(s)}

SeqsUpTo(S, n) == UNION {[1..k -> S] : k \in 0..n}

RECURSIVE SumSeq(_)
SumSeq(s) == IF s = <<>> THEN 0 ELSE Head(s) + SumSeq(Tail(s))

RECURSIVE Flatten(_)
Flatten(ss) == IF ss = <<>> THEN <<>> ELSE Head(ss) \o Flatten(Tail(ss))

(***************************************************************************)
(* Text: the lexical pieces and what the source's string functions see in  *)
(* each of them.                                                           *)
(***************************************************************************)
Spaces == {" ", "\n", "  "}

Words ==
  {"Is", "Python", "python", "fast", "and", "Docker", "Use", "IoC", "API", "SQL", "AWS",
   "What", "is", "Thanks", "you", "Gemini", "Here", "restart", "JWT", "deploy"}

\* Two runs of letters that hold no technical term, no topic keyword and no
\* sender indicator: one of 95 characters and one of 300.
Run95 == "letters*95"

Run300 == "letters*300"

\* "[x]" stands for the inline code span x between two backticks (a backtick
\* cannot be written in a string here); it is 3 characters long.
CodeSpan == "[x]"

\* "[fence]" stands for the three backticks that open and close a fenced
\* code block.
Fence == "[fence]"

Pieces == Words \cup Spaces \cup {"?", "!", CodeSpan, Fence, Run95, Run300}

\* len(piece)
PieceLen(p) ==
  CASE p \in {"Is", "is"} -> 2
    [] p = "restart" -> 7
    [] p \in {"Python", "python", "Docker", "Thanks", "Gemini", "deploy"} -> 6
    [] p \in {"fast", "What", "Here"} -> 4
    [] p \in {"and", "Use", "IoC", "API", "SQL", "AWS", "you", "JWT", CodeSpan, Fence} -> 3
    [] p = "  " -> 2
    [] p = Run95 -> 95
    [] p = Run300 -> 300
    [] OTHER -> 1

\* len(content)
StrLen(text) == SumSeq([i \in 1..Len(text) |-> PieceLen(text[i])])

\* str.strip(): leading and trailing whitespace removed
RECURSIVE LStrip(_)
LStrip(text) ==
  IF text # <<>> /\ Head(text) \in Spaces THEN LStrip(Tail(text)) ELSE text

RECURSIVE RStrip(_)
RStrip(text) ==
  IF text # <<>> /\ text[Len(text)] \in Spaces
  THEN RStrip(SubSeq(text, 1, Len(text) - 1))
  ELSE text

Strip(text) == RStrip(LStrip(text))

\* sep.join(texts)
RECURSIVE Join(_, _)
Join(sep, texts) ==
  IF texts = <<>> THEN <<>>
  ELSE IF Len(texts) = 1 THEN Head(texts)
  ELSE Head(texts) \o <<sep>> \o Join(sep, Tail(texts))

\* re.sub of whitespace runs by one space: every run of whitespace becomes " "
RECURSIVE CollapseSpaces(_)
CollapseSpaces(text) ==
  IF text = <<>> THEN <<>>
  ELSE IF Head(text) \in Spaces
       THEN <<" ">> \o CollapseSpaces(LStrip(text))
       ELSE <<Head(text)>> \o CollapseSpaces(Tail(text))

\* The texts the snapshots are built from.
Q1 == <<"Is", " ", "Python", " ", "fast", "?">>

R1 == <<"Python", " ", "and", " ", "Docker">>

R2 == <<"Use", "  ", CodeSpan>>

R6 ==
  <<"Python", " ", "Docker", " ", "IoC", " ", "API", " ", "SQL", " ", "AWS", " ", CodeSpan>>

Blank == <<" ", "\n">>

\* Texts for the sender classification: by length and last character
Thanks == <<"Thanks", "!">>

WhatIsIoC == <<"What", " ", "is", " ", "IoC", "?">>

L99 == <<"Here", Run95>>

L100 == <<"Here", " ", Run95>>

L100Q == <<"Here", Run95, "?">>

L400 == <<"Here", " ", Run300, " ", Run95>>

\* and texts that name a sender
ThankYou == <<"Thanks", " ", "you">>

AskGemini == <<"Gemini", " ", Run95>>

(***************************************************************************)
(* The DOM snapshot the enhanced extractor parses: the sequence, in        *)
(* document order, of the div.conversation-container elements.  Of each    *)
(* container: its id attribute ("" when it has none), its first            *)
(* user-query element (the raw text of each p.query-text-line in it), its  *)
(* first model-response element (whether it holds a message-content, and   *)
(* the child nodes of the div.markdown in that, if any) and its time       *)
(* element.                                                                *)
(***************************************************************************)
ContainerIds == {"", "m1"}

UserQueries == {None, Some(<<Blank>>), Some(<<Q1>>)}

MarkdownNodes ==
  { <<>>,
    <<[tag |-> "p", text |-> R1]>>,
    <<[tag |-> "script", text |-> <<"Use">>], [tag |-> "p", text |-> R2 \o <<"\n">>]>> }

ModelResponses ==
  {None, Some([message_content |-> FALSE, markdown |-> None])}
    \cup {Some([message_content |-> TRUE, markdown |-> Some(n)]) : n \in MarkdownNodes}

TimeElems ==
  {None, Some([tag |-> "time", classes |-> "", datetime |-> "2024-05-01T10:00:00Z",
               text |-> "yesterday"])}

Containers ==
  [id : ContainerIds, user_query : UserQueries, model_response : ModelResponses,
   time : TimeElems]

Snapshots == SeqsUpTo(Containers, MaxContainers)

\* datetime.now().isoformat()
WallClock == "now"

MarkitdownModes == {"unavailable", "ok", "fails"}

(***************************************************************************)
(* EnhancedGeminiExtractor                                                 *)
(***************************************************************************)
\* extract_user_message: the stripped, non-empty query lines joined by a
\* newline; None when there is none.
extract_user_message(user_query_element) ==
  LET stripped == [i \in 1..Len(user_query_element) |-> Strip(user_query_element[i])]
      query_texts == SelectSeq(stripped, LAMBDA t : t # <<>>)
  IN IF query_texts # <<>> THEN Some(Join("\n", query_texts)) ELSE None

\* What MarkItDown.convert makes of one block node: the text of a pre
\* element between two fences, as it is; of any other element the text
\* with every run of whitespace collapsed.
markitdown_block(node) ==
  IF node.tag = "pre"
  THEN <<Fence, "\n">> \o node.text \o <<"\n", Fence>>
  ELSE CollapseSpaces(node.text)

\* MarkItDown.convert of the element written to the temporary file: the
\* block nodes, one after the other.
markitdown_convert(nodes) ==
  Join("\n", [i \in 1..Len(nodes) |-> markitdown_block(nodes[i])])

\* html_to_markdown without the fallback behind the except clause.
html_to_markdown_nofallback(nodes, mk) ==
  Strip(markitdown_convert(nodes))

\* html_to_markdown: the MarkItDown conversion when it is available and does
\* not raise, else the tags removed, whitespace runs collapsed, stripped.
html_to_markdown(nodes, mk) ==
  IF mk = "ok"
  THEN Strip(markitdown_convert(nodes))
  ELSE Strip(CollapseSpaces(Flatten([i \in 1..Len(nodes) |-> nodes[i].text])))

\* clean_response_content: script and style elements are removed first.
clean_response_content(nodes, mk) ==
  html_to_markdown(SelectSeq(nodes, LAMBDA n : n.tag \notin {"script", "style"}), mk)

\* extract_model_response: None without a message-content or a div.markdown.
extract_model_response(model_response_element, mk) ==
  IF ~model_response_element.message_content THEN None
  ELSE IF IsNone(model_response_element.markdown) THEN None
  ELSE Some(clean_response_content(model_response_element.markdown[1], mk))

\* datetime.fromisoformat(timestamp.replace('Z', '+00:00')).isoformat()
IsoParse(timestamp) ==
  IF timestamp = "2024-05-01T10:00:00Z" THEN Some("2024-05-01T10:00:00+00:00")
  ELSE IF timestamp = "2024-05-01T10:00:00" THEN Some("2024-05-01T10:00:00")
  ELSE None

\* datetime.strptime(text_content, fmt).isoformat() over the three formats
StrptimeParse(text_content) ==
  IF text_content \in {"2024-05-01 10:00:00", "2024-05-01T10:00:00"}
  THEN Some("2024-05-01T10:00:00")
  ELSE IF text_content = "05/01/2024 10:00" THEN Some("2024-05-01T10:00:00")
  ELSE None

\* timestamp_selectors, in the order they are tried
timestamp_selectors ==
  <<"time", "[data-timestamp]", ".timestamp", ".message-time", "[datetime]">>

\* container.find(name): the first element whose tag name is name.  The
\* argument is a tag name, not a CSS selector.
Find(container, name) ==
  IF ~IsNone(container.time) /\ container.time[1].tag = name THEN container.time ELSE None

\* extract_timestamp: of the first element found whose datetime attribute
\* or text parses, that time; else the current time.
extract_timestamp(container) ==
  LET found == SelectSeq(timestamp_selectors,
                         LAMBDA sel : /\ ~IsNone(Find(container, sel))
                                      /\ LET e == Find(container, sel)[1]
                                         IN \/ e.datetime # "" /\ ~IsNone(IsoParse(e.datetime))
                                            \/ e.text # "" /\ ~IsNone(StrptimeParse(e.text)))
  IN IF found = <<>> THEN WallClock
     ELSE LET e == Find(container, found[1])[1]
          IN IF e.datetime # "" /\ ~IsNone(IsoParse(e.datetime)) THEN IsoParse(e.datetime)[1]
             ELSE StrptimeParse(e.text)[1]

\* ContainerMessages without the test that the user query has text.
ContainerMessages_unguarded(container, mk) ==
  LET query_text == IF IsNone(container.user_query) THEN None
                    ELSE extract_user_message(container.user_query[1])
      response_content == IF IsNone(container.model_response) THEN None
                          ELSE extract_model_response(container.model_response[1], mk)
  IN (IF ~IsNone(container.user_query)
      THEN <<[id |-> container.id, sender |-> "user",
              content |-> IF IsNone(query_text) THEN <<>> ELSE query_text[1],
              timestamp |-> extract_timestamp(container), type |-> "user_message"]>>
      ELSE <<>>)
     \o
     (IF ~IsNone(response_content) /\ response_content[1] # <<>>
      THEN <<[id |-> container.id, sender |-> "assistant", content |-> response_content[1],
              timestamp |-> extract_timestamp(container), type |-> "assistant_message"]>>
      ELSE <<>>)

\* ContainerMessages naming the sender after the content: "user" for a
\* text that ends in a question mark or is shorter than 100 characters.
ContainerMessages_bycontent(container, mk) ==
  LET guess(m) == IF m.content[Len(m.content)] = "?" \/ StrLen(m.content) < 100
                  THEN "user" ELSE "assistant"
      found == ContainerMessages_unguarded(container, mk)
      kept == SelectSeq(found, LAMBDA m : m.content # <<>>)
  IN [i \in 1..Len(kept) |-> [kept[i] EXCEPT !.sender = guess(kept[i])]]

\* The messages one container contributes: the user query first, then the
\* model response, both under the container's id.
ContainerMessages(container, mk) ==
  LET message_id == container.id
      query_text == IF IsNone(container.user_query) THEN None
                    ELSE extract_user_message(container.user_query[1])
      response_content == IF IsNone(container.model_response) THEN None
                          ELSE extract_model_response(container.model_response[1], mk)
  IN (IF ~IsNone(query_text) /\ query_text[1] # <<>>
      THEN <<[id |-> message_id, sender |-> "user", content |-> query_text[1],
              timestamp |-> extract_timestamp(container), type |-> "user_message"]>>
      ELSE <<>>)
     \o
     (IF ~IsNone(response_content) /\ response_content[1] # <<>>
      THEN <<[id |-> message_id, sender |-> "assistant", content |-> response_content[1],
              timestamp |-> extract_timestamp(container), type |-> "assistant_message"]>>
      ELSE <<>>)

\* parse_conversation_structure
parse_conversation_structure(html_content, mk) ==
  Flatten([i \in 1..Len(html_content) |-> ContainerMessages(html_content[i], mk)])

\* save_structured_conversation counting the containers, not the messages.
save_structured_conversation_containers(html_content, messages, title, url) ==
  [title |-> title, url |-> url, extracted_at |-> WallClock,
   message_count |-> Len(html_content), messages |-> messages]

\* save_structured_conversation: the record written to structured_*.json
save_structured_conversation(html_content, messages, title, url) ==
  [title |-> title, url |-> url, extracted_at |-> WallClock,
   message_count |-> Len(messages), messages |-> messages]

\* A markdown document is the sequence of its lines, a line the sequence
\* of its pieces.  The two icons are written by their code points.
UserIcon == "U+1F464"

RobotIcon == "U+1F916"

\* text.split("\n")
RECURSIVE SplitLines(_)
SplitLines(text) ==
  IF "\n" \notin Range(text) THEN <<text>>
  ELSE LET i == CHOOSE j \in 1..Len(text) : text[j] = "\n" /\ \A k \in 1..(j - 1) : text[k] # "\n"
       IN <<SubSeq(text, 1, i - 1)>> \o SplitLines(SubSeq(text, i + 1, Len(text)))

\* create_structured_markdown: the head, one block per message, the foot
create_structured_markdown(structured_data) ==
  << <<"# ", structured_data.title>>, <<>>,
     <<"**Extracted:** ", structured_data.extracted_at>>,
     <<"**URL:** ", structured_data.url>>,
     <<"**Messages:** ", ToString(structured_data.message_count)>>,
     <<>>, <<"---">>, <<>> >>
  \o Flatten([i \in 1..Len(structured_data.messages) |->
               LET message == structured_data.messages[i]
                   sender_icon == IF message.sender = "user" THEN UserIcon ELSE RobotIcon
                   sender_name == IF message.sender = "user" THEN "User" ELSE "Assistant"
               IN << <<"## ", sender_icon, " ", sender_name, " (Message ", ToString(i), ")">>,
                     <<>>,
                     <<"**ID:** ", message.id>>,
                     <<"**Timestamp:** ", message.timestamp>>,
                     <<"**Type:** ", message.type>>,
                     <<>> >>
                  \o SplitLines(message.content)
                  \o << <<>>, <<"---">>, <<>> >>])
  \o << <<>>,
        <<"*Extracted using Enhanced Gemini Extractor with structured message parsing*">> >>

(***************************************************************************)
(* The page GeminiConversationExtractor.extract_conversation_content       *)
(* queries: whether it has a main element, and its message-like elements   *)
(* in document order.  An element is a div carrying a data-testid of       *)
(* "message-N", an article, or a plain div; all of them lie inside main    *)
(* when the page has one.  Of each element: its text_content() and its     *)
(* class attribute.                                                        *)
(***************************************************************************)
ElementKinds == {"div[data-testid=message]", "article", "div"}

ElementTexts == {R2, Q1, Q1 \o <<" ">> \o R1}

ElementClasses == {"", "ai-turn"}

Elements == [kind : ElementKinds, text : ElementTexts, classes : ElementClasses]

Pages == [main : BOOLEAN, elements : SeqsUpTo(Elements, MaxElements)]

\* message_selectors, in the order they are tried
message_selectors ==
  << "[data-testid*=message]", "[data-testid*=chat]", ".message", ".chat-message",
     ".conversation-turn", "article", ".user-message", ".ai-message",
     "div[role=article]", "div[data-message-id]" >>

\* whether a CSS selector matches an element
Matches(selector, element) ==
  \/ selector = "[data-testid*=message]" /\ element.kind = "div[data-testid=message]"
  \/ selector = "article" /\ element.kind = "article"
  \/ selector = "div[data-message-id]" /\ element.kind = "div[data-message-id]"

\* page.query_selector_all(selector)
query_selector_all(pg, selector) ==
  SelectSeq(pg.elements, LAMBDA e : Matches(selector, e))

\* The first selector matching more than one element decides; index 0 when
\* there is none.
RECURSIVE FirstSelector(_, _)
FirstSelector(pg, i) ==
  IF i > Len(message_selectors) THEN 0
  ELSE IF Len(query_selector_all(pg, message_selectors[i])) > 1 THEN i
  ELSE FirstSelector(pg, i + 1)

\* Minimum stripped text length of a div taken from the main content area
\* (strictly more), of an extracted message (at least), and the length
\* under which the content fallback says "user".
MainDivMinLen == 20

MessageMinLen == 10

UserMaxLen == 100

\* The fallback: the divs of the main content area with substantial text.
MainContentDivs(pg) ==
  IF pg.main
  THEN SelectSeq(pg.elements,
                 LAMBDA e : e.kind \in {"div[data-testid=message]", "div[data-message-id]", "div"}
                            /\ e.text # <<>> /\ StrLen(Strip(e.text)) > MainDivMinLen)
  ELSE <<>>

\* message_elements after the selector loop and the main-content fallback
SelectMessageElements(pg) ==
  IF FirstSelector(pg, 1) # 0
  THEN query_selector_all(pg, message_selectors[FirstSelector(pg, 1)])
  ELSE MainContentDivs(pg)

\* The indicators that are substrings of piece.lower(), and of a class
\* attribute
IndicatorsIn(p) ==
  CASE p = "you" -> {"you"}
    [] p = "Gemini" -> {"gemini"}
    [] OTHER -> {}

ClassIndicators(classes) ==
  CASE classes = "ai-turn" -> {"ai"}
    [] classes = "user-turn" -> {"user"}
    [] OTHER -> {}

\* whether the element's markup or class attribute contains an indicator
HasIndicator(element, indicators) ==
  \/ \E i \in 1..Len(element.text) : IndicatorsIn(element.text[i]) \cap indicators # {}
  \/ ClassIndicators(element.classes) \cap indicators # {}

\* MessageType whose content guess says "user" up to UserMaxLen characters.
MessageType_atmost(element) ==
  IF HasIndicator(element, {"user", "human", "you"}) THEN "user"
  ELSE IF HasIndicator(element, {"ai", "assistant", "gemini", "bot"}) THEN "ai"
  ELSE IF Strip(element.text)[Len(Strip(element.text))] = "?"
          \/ StrLen(Strip(element.text)) <= UserMaxLen
       THEN "user"
       ELSE "ai"

\* message_type of an element
MessageType(element) ==
  IF HasIndicator(element, {"user", "human", "you"}) THEN "user"
  ELSE IF HasIndicator(element, {"ai", "assistant", "gemini", "bot"}) THEN "ai"
  ELSE IF Strip(element.text)[Len(Strip(element.text))] = "?"
          \/ StrLen(Strip(element.text)) < UserMaxLen
       THEN "user"
       ELSE "ai"

\* The extraction loop: elements with less than MessageMinLen characters of
\* text are skipped; the others keep their position as index.
ExtractMessages(message_elements) ==
  LET kept == SelectSeq([i \in 1..Len(message_elements) |->
                           [index |-> i - 1, element |-> message_elements[i]]],
                        LAMBDA x : x.element.text # <<>>
                                   /\ StrLen(Strip(x.element.text)) >= MessageMinLen)
  IN [k \in 1..Len(kept) |->
        [index |-> kept[k].index, type |-> MessageType(kept[k].element),
         content |-> Strip(kept[k].element.text), timestamp |-> ""]]

\* _convert_messages_to_markdown: the lines it joins
convert_messages_to_markdown(messages, url) ==
  << <<"# Gemini Conversation">>, <<>>,
     <<"**URL:** ", url>>,
     <<"**Extracted:** ", WallClock>>,
     <<"**Messages:** ", ToString(Len(messages))>>,
     <<>>, <<"---">>, <<>> >>
  \o Flatten([i \in 1..Len(messages) |->
               LET message_type == messages[i].type
                   timestamp == messages[i].timestamp
                   header == IF message_type = "user" THEN <<"## ", UserIcon, " ", "User">>
                             ELSE IF message_type = "ai" THEN <<"## ", RobotIcon, " ", "Gemini">>
                             ELSE <<"## Message ", ToString(messages[i].index + 1)>>
               IN << header \o (IF timestamp # "" THEN <<" _", timestamp, "_">> ELSE <<>>),
                     <<>> >>
                  \o SplitLines(messages[i].content)
                  \o << <<>> >>])
  \o << <<"---">>, <<>>, <<"*Extracted using Playwright DOM manipulation*">> >>

\* extract_conversation_content: the raw_data it returns
extract_conversation_content(pg) ==
  LET messages == ExtractMessages(SelectMessageElements(pg))
  IN [task |-> "extract_conversation_content", messages_count |-> Len(messages),
      messages |-> messages]

(***************************************************************************)
(* extract_conversation of cli_gemini_extractor.py, after the conversation *)
(* has been opened: a shorter selector list, the same fallback, and a      *)
(* sender rule that reads the inner HTML of the element only.              *)
(***************************************************************************)
cli_message_selectors ==
  << "[data-testid*=message]", "[data-testid*=chat]", ".message", ".chat-message",
     "article", "div[role=article]" >>

\* message_elements after the selector loop and the main-content fallback
cli_message_elements(pg) ==
  LET hits == SelectSeq(cli_message_selectors,
                        LAMBDA selector : Len(query_selector_all(pg, selector)) > 1)
  IN IF hits # <<>> THEN query_selector_all(pg, hits[1]) ELSE MainContentDivs(pg)

\* message_type of an element: the indicators are looked for in
\* element.inner_html(), which does not hold the element's own attributes.
cli_message_type(element) ==
  LET inner == [element EXCEPT !.classes = ""]
  IN IF HasIndicator(inner, {"user", "human", "you"}) THEN "user"
     ELSE IF HasIndicator(inner, {"ai", "assistant", "gemini", "bot"}) THEN "ai"
     ELSE IF Strip(element.text)[Len(Strip(element.text))] = "?"
             \/ StrLen(Strip(element.text)) < UserMaxLen
          THEN "user"
          ELSE "ai"

\* extract_conversation: the raw_data it saves
cli_extract_conversation(pg) ==
  LET message_elements == cli_message_elements(pg)
      kept == SelectSeq([i \in 1..Len(message_elements) |->
                           [index |-> i - 1, element |-> message_elements[i]]],
                        LAMBDA x : x.element.text # <<>>
                                   /\ StrLen(Strip(x.element.text)) >= MessageMinLen)
      messages == [k \in 1..Len(kept) |->
                     [index |-> kept[k].index, type |-> cli_message_type(kept[k].element),
                      content |-> Strip(kept[k].element.text),
                      length |-> StrLen(Strip(kept[k].element.text))]]
  IN [task |-> "extract_conversation", messages_count |-> Len(messages),
      messages |-> messages]

(***************************************************************************)
(* ConversationAnalyzer                                                    *)
(***************************************************************************)
\* technical_patterns: the eight alternations, in order, each term in the
\* upper case that match.upper() gives it.
technical_patterns ==
  << <<"API", "SDK", "CLI", "JWT", "OAUTH", "HTTP", "HTTPS", "REST", "GRAPHQL", "JSON",
       "XML", "YAML", "SQL", "NOSQL">>,
     <<"DOCKER", "KUBERNETES", "AWS", "GCP", "AZURE", "GITHUB", "GITLAB", "CI/CD">>,
     <<"PYTHON", "JAVASCRIPT", "TYPESCRIPT", "JAVA", "C++", "RUST", "GO", "RUBY", "PHP">>,
     <<"REACT", "VUE", "ANGULAR", "NODE.JS", "EXPRESS", "DJANGO", "FLASK", "FASTAPI">>,
     <<"MONGODB", "POSTGRESQL", "MYSQL", "REDIS", "ELASTICSEARCH", "KAFKA">>,
     <<"PLAYWRIGHT", "SELENIUM", "PUPPETEER", "CYPRESS">>,
     <<"AI", "ML", "LLM", "NLP", "GPT", "BERT", "TRANSFORMER">>,
     <<"IOC", "DI", "MVC", "MVP", "MVVM", "SOLID", "DRY", "KISS">> >>

\* The terms of each pattern as a set, and all of them in pattern order
pattern_terms == [k \in 1..Len(technical_patterns) |-> Range(technical_patterns[k])]

all_terms == Flatten(technical_patterns)

\* str.upper() of a piece
Upper(p) ==
  CASE p \in {"Python", "python"} -> "PYTHON"
    [] p = "Docker" -> "DOCKER"
    [] p = "IoC" -> "IOC"
    [] p = "API" -> "API"
    [] p = "SQL" -> "SQL"
    [] p = "AWS" -> "AWS"
    [] p = "Is" -> "IS"
    [] p = "fast" -> "FAST"
    [] p = "and" -> "AND"
    [] p = "Use" -> "USE"
    [] p = "What" -> "WHAT"
    [] p = "is" -> "IS"
    [] p = "Thanks" -> "THANKS"
    [] p = "you" -> "YOU"
    [] p = "Gemini" -> "GEMINI"
    [] p = "Here" -> "HERE"
    [] p = "restart" -> "RESTART"
    [] p = "deploy" -> "DEPLOY"
    [] p = Run95 -> "LETTERS*95"
    [] p = Run300 -> "LETTERS*300"
    [] OTHER -> p

\* extract_technical_terms: per pattern, the words of the content it matches
\* (ignoring case), in content order, upper-cased.
extract_technical_terms(content) ==
  Flatten([k \in 1..Len(technical_patterns) |->
             LET hits == SelectSeq(content, LAMBDA p : Upper(p) \in pattern_terms[k])
             IN [i \in 1..Len(hits) |-> Upper(hits[i])]])

\* topic_keywords, in dictionary order
topic_names ==
  << "authentication", "automation", "architecture", "deployment", "database", "api",
     "frontend", "backend", "testing", "security", "performance", "monitoring" >>

topic_keywords(topic) ==
  CASE topic = "authentication" -> {"auth", "login", "token", "jwt", "oauth", "credential"}
    [] topic = "automation" -> {"playwright", "selenium", "automation", "script", "bot"}
    [] topic = "architecture" -> {"architecture", "design", "pattern", "structure", "component"}
    [] topic = "deployment" -> {"deploy", "deployment", "docker", "kubernetes", "container"}
    [] topic = "database" -> {"database", "sql", "nosql", "mongodb", "postgresql", "redis"}
    [] topic = "api" -> {"api", "endpoint", "rest", "graphql", "service", "microservice"}
    [] topic = "frontend" -> {"frontend", "ui", "react", "vue", "angular", "javascript"}
    [] topic = "backend" -> {"backend", "server", "node", "python", "django", "flask"}
    [] topic = "testing" -> {"test", "testing", "unit", "integration", "e2e", "cypress"}
    [] topic = "security" -> {"security", "encryption", "ssl", "tls", "vulnerability"}
    [] topic = "performance" -> {"performance", "optimization", "cache", "speed", "latency"}
    [] topic = "monitoring" -> {"monitoring", "logging", "metrics", "observability", "alert"}

\* The keywords that are substrings of piece.lower()
KeywordsIn(p) ==
  CASE p \in {"Python", "python"} -> {"python"}
    [] p = "Docker" -> {"docker"}
    [] p = "API" -> {"api"}
    [] p = "SQL" -> {"sql"}
    [] p = "restart" -> {"rest"}
    [] p = "JWT" -> {"jwt"}
    [] p = "deploy" -> {"deploy"}
    [] OTHER -> {}

\* extract_topics asking for every keyword of the topic.
extract_topics_all(content) ==
  SelectSeq(topic_names,
            LAMBDA topic : \A keyword \in topic_keywords(topic) :
                             \E i \in 1..Len(content) : keyword \in KeywordsIn(content[i]))

\* extract_topics: a topic whenever any of its keywords occurs in the
\* lower-cased content.
extract_topics(content) ==
  SelectSeq(topic_names,
            LAMBDA topic : \E i \in 1..Len(content) :
                             KeywordsIn(content[i]) \cap topic_keywords(topic) # {})

\* len(re.findall(pattern, content)) summed over the three code patterns
CodeMatches(content) ==
  Len(SelectSeq(content, LAMBDA p : p = CodeSpan))

\* CountQuestionMarks saying 1 for any number of question marks.
CountQuestionMarks_once(content) ==
  IF \E i \in 1..Len(content) : content[i] = "?" THEN 1 ELSE 0

\* content.count("?")
CountQuestionMarks(content) ==
  Len(SelectSeq(content, LAMBDA p : p = "?"))

\* sorted(xs)
RECURSIVE SortInts(_)
SortInts(xs) ==
  IF xs = <<>> THEN <<>>
  ELSE LET m == CHOOSE x \in Range(xs) : \A y \in Range(xs) : x <= y
           i == CHOOSE j \in 1..Len(xs) : xs[j] = m
       IN <<m>> \o SortInts(SubSeq(xs, 1, i - 1) \o SubSeq(xs, i + 1, Len(xs)))

MaxInt(xs) == CHOOSE x \in Range(xs) : \A y \in Range(xs) : x >= y

MinInt(xs) == CHOOSE x \in Range(xs) : \A y \in Range(xs) : x <= y

\* A number that need not be whole is the fraction num/den.
Frac(n, d) == [num |-> n, den |-> d]

\* statistics.mean, statistics.median
Mean(xs) == Frac(SumSeq(xs), Len(xs))

Median(xs) ==
  LET s == SortInts(xs)
      n == Len(xs)
  IN IF n % 2 = 1 THEN Frac(s[(n + 1) \div 2], 1)
     ELSE Frac(s[n \div 2] + s[n \div 2 + 1], 2)

\* The first occurrences of a sequence, in order
RECURSIVE DedupInto(_, _)
DedupInto(seen, xs) ==
  IF xs = <<>> THEN seen
  ELSE DedupInto(IF Head(xs) \in Range(seen) THEN seen ELSE Append(seen, Head(xs)), Tail(xs))

Dedup(xs) == DedupInto(<<>>, xs)

\* list(set(xs)): the distinct elements in the iteration order of a set of
\* strings, which is fixed by the string hashes of the running process, i.e.
\* by its hash seed.  The orders of different seeds are rotations of one
\* another here.
RECURSIVE Rotate(_, _)
Rotate(xs, k) ==
  IF k = 0 \/ xs = <<>> THEN xs ELSE Rotate(Tail(xs) \o <<Head(xs)>>, k - 1)

SetToList(xs, universe, seed) ==
  LET distinct == SelectSeq(universe, LAMBDA x : x \in Range(xs))
  IN IF distinct = <<>> THEN <<>> ELSE Rotate(distinct, seed % Len(distinct))

\* generate_insights with two independent tests in the code check.
generate_insights_twoifs(analysis) ==
  (IF analysis.total_messages > 0
   THEN IF 10 * analysis.user_messages > 6 * analysis.total_messages
        THEN <<"User-driven conversation with many questions">>
        ELSE IF 10 * analysis.user_messages < 3 * analysis.total_messages
             THEN <<"Assistant-heavy conversation with detailed responses">>
             ELSE <<"Balanced conversation between user and assistant">>
   ELSE <<>>)
  \o
  (IF Len(analysis.unique_technical_terms) > 10
   THEN <<"Highly technical conversation with diverse technologies">>
   ELSE IF Len(analysis.unique_technical_terms) > 5
        THEN <<"Moderately technical discussion">>
        ELSE <<"General or non-technical conversation">>)
  \o
  (IF analysis.code_blocks > 5
   THEN <<"Code-heavy conversation with examples and implementations">> ELSE <<>>)
  \o
  (IF analysis.code_blocks > 0
   THEN <<"Contains code examples and technical details">> ELSE <<>>)
  \o
  (IF analysis.questions_asked > 5
   THEN <<"Exploratory conversation with many questions">> ELSE <<>>)
  \o
  (IF analysis.avg_message_length.num > 1000 * analysis.avg_message_length.den
   THEN <<"Detailed conversation with comprehensive responses">>
   ELSE IF analysis.avg_message_length.num < 200 * analysis.avg_message_length.den
        THEN <<"Concise conversation with brief exchanges">>
        ELSE <<>>)

\* generate_insights whose comparisons are not strict.
generate_insights_nonstrict(analysis) ==
  (IF analysis.total_messages > 0
   THEN IF 10 * analysis.user_messages >= 6 * analysis.total_messages
        THEN <<"User-driven conversation with many questions">>
        ELSE IF 10 * analysis.user_messages <= 3 * analysis.total_messages
             THEN <<"Assistant-heavy conversation with detailed responses">>
             ELSE <<"Balanced conversation between user and assistant">>
   ELSE <<>>)
  \o
  (IF Len(analysis.unique_technical_terms) >= 10
   THEN <<"Highly technical conversation with diverse technologies">>
   ELSE IF Len(analysis.unique_technical_terms) >= 5
        THEN <<"Moderately technical discussion">>
        ELSE <<"General or non-technical conversation">>)
  \o
  (IF analysis.code_blocks >= 5
   THEN <<"Code-heavy conversation with examples and implementations">>
   ELSE IF analysis.code_blocks > 0
        THEN <<"Contains code examples and technical details">>
        ELSE <<>>)
  \o
  (IF analysis.questions_asked >= 5
   THEN <<"Exploratory conversation with many questions">> ELSE <<>>)
  \o
  (IF analysis.avg_message_length.num >= 1000 * analysis.avg_message_length.den
   THEN <<"Detailed conversation with comprehensive responses">>
   ELSE IF analysis.avg_message_length.num <= 200 * analysis.avg_message_length.den
        THEN <<"Concise conversation with brief exchanges">>
        ELSE <<>>)

\* generate_insights: the five checks, in order
generate_insights(analysis) ==
  LET total_msgs == analysis.total_messages
      user_msgs == analysis.user_messages
      unique_terms == Len(analysis.unique_technical_terms)
      avg_length == analysis.avg_message_length
  IN (IF total_msgs > 0
      THEN IF 10 * user_msgs > 6 * total_msgs
           THEN <<"User-driven conversation with many questions">>
           ELSE IF 10 * user_msgs < 3 * total_msgs
                THEN <<"Assistant-heavy conversation with detailed responses">>
                ELSE <<"Balanced conversation between user and assistant">>
      ELSE <<>>)
     \o
     (IF unique_terms > 10
      THEN <<"Highly technical conversation with diverse technologies">>
      ELSE IF unique_terms > 5
           THEN <<"Moderately technical discussion">>
           ELSE <<"General or non-technical conversation">>)
     \o
     (IF analysis.code_blocks > 5
      THEN <<"Code-heavy conversation with examples and implementations">>
      ELSE IF analysis.code_blocks > 0
           THEN <<"Contains code examples and technical details">>
           ELSE <<>>)
     \o
     (IF analysis.questions_asked > 5
      THEN <<"Exploratory conversation with many questions">>
      ELSE <<>>)
     \o
     (IF avg_length.num > 1000 * avg_length.den
      THEN <<"Detailed conversation with comprehensive responses">>
      ELSE IF avg_length.num < 200 * avg_length.den
           THEN <<"Concise conversation with brief exchanges">>
           ELSE <<>>)

\* MessageStats with an else in place of the elif on the assistant sender.
MessageStats_else(messages) ==
  LET users == SelectSeq(messages, LAMBDA m : m.sender = "user")
      assistants == SelectSeq(messages, LAMBDA m : m.sender # "user")
  IN [user_messages |-> Len(users),
      assistant_messages |-> Len(assistants),
      message_lengths |-> [i \in 1..Len(messages) |-> StrLen(messages[i].content)],
      conversation_flow |-> [i \in 1..Len(messages) |->
                               [sender |-> messages[i].sender,
                                length |-> StrLen(messages[i].content),
                                timestamp |-> messages[i].timestamp]],
      questions_asked |-> SumSeq([i \in 1..Len(users) |-> CountQuestionMarks(users[i].content)]),
      code_blocks |-> SumSeq([i \in 1..Len(messages) |-> CodeMatches(messages[i].content)]),
      technical_terms |->
        Flatten([i \in 1..Len(messages) |-> extract_technical_terms(messages[i].content)]),
      topics_mentioned |->
        Flatten([i \in 1..Len(messages) |-> extract_topics(messages[i].content)])]

\* The counters after the loop over the messages
MessageStats(messages) ==
  LET users == SelectSeq(messages, LAMBDA m : m.sender = "user")
      assistants == SelectSeq(messages, LAMBDA m : m.sender = "assistant")
  IN [user_messages |-> Len(users),
      assistant_messages |-> Len(assistants),
      message_lengths |-> [i \in 1..Len(messages) |-> StrLen(messages[i].content)],
      conversation_flow |-> [i \in 1..Len(messages) |->
                               [sender |-> messages[i].sender,
                                length |-> StrLen(messages[i].content),
                                timestamp |-> messages[i].timestamp]],
      questions_asked |-> SumSeq([i \in 1..Len(users) |-> CountQuestionMarks(users[i].content)]),
      code_blocks |-> SumSeq([i \in 1..Len(messages) |-> CodeMatches(messages[i].content)]),
      technical_terms |->
        Flatten([i \in 1..Len(messages) |-> extract_technical_terms(messages[i].content)]),
      topics_mentioned |->
        Flatten([i \in 1..Len(messages) |-> extract_topics(messages[i].content)])]

\* The analysis dictionary before the insights are added.  The median, max
\* and min keys exist only when there is a message.
AnalysisStats(data, st, seed) ==
  LET lengths == st.message_lengths
      base == [title |-> data.title, url |-> data.url, extracted_at |-> data.extracted_at,
               total_messages |-> data.message_count,
               avg_message_length |-> IF lengths # <<>> THEN Mean(lengths) ELSE Frac(0, 1),
               unique_technical_terms |->
                 SetToList(st.technical_terms, all_terms, seed),
               unique_topics |-> SetToList(st.topics_mentioned, topic_names, seed)] @@ st
  IN IF lengths # <<>>
     THEN [median_message_length |-> Median(lengths),
           max_message_length |-> MaxInt(lengths),
           min_message_length |-> MinInt(lengths)] @@ base
     ELSE base

WithInsights(analysis) == [key_insights |-> generate_insights(analysis)] @@ analysis

\* analyze_conversation, in a process whose string hashes come from seed
analyze_conversation(data, seed) ==
  TheOne({WithInsights(analysis) :
            analysis \in {AnalysisStats(data, st, seed) : st \in {MessageStats(data.messages)}}})

\* RankedCounts listing items of equal count with the last seen first.
RankedCounts_lastseen(items, n) ==
  LET first == Dedup(items)
      distinct == [i \in 1..Len(first) |-> first[Len(first) + 1 - i]]
      count == [x \in Range(items) |-> Len(SelectSeq(items, LAMBDA y : y = x))]
      ranked == Flatten([k \in 1..Len(items) |->
                           SelectSeq(distinct, LAMBDA x : count[x] = Len(items) - k + 1)])
  IN [i \in 1..(IF Len(distinct) < n THEN Len(distinct) ELSE n) |->
        <<ranked[i], count[ranked[i]]>>]

\* collections.Counter(items).most_common(n): the distinct items by falling
\* count, items of equal count in the order they were first seen, cut to n.
RankedCounts(items, n) ==
  LET distinct == Dedup(items)
      count == [x \in Range(items) |-> Len(SelectSeq(items, LAMBDA y : y = x))]
      ranked == Flatten([k \in 1..Len(items) |->
                           SelectSeq(distinct, LAMBDA x : count[x] = Len(items) - k + 1)])
  IN [i \in 1..(IF Len(distinct) < n THEN Len(distinct) ELSE n) |->
        <<ranked[i], count[ranked[i]]>>]

\* most_common without the cut at n.
most_common_uncut(items, n) == RankedCounts(items, Len(items))

most_common(items, n) == TheOne({RankedCounts(its, n) : its \in {items}})

\* The lengths of the three ranked tables
TermLimit == 10

TopicLimit == 10

InsightLimit == 5

\* The report over the given analyses, the tables built from the lists
\* of terms, of topics and of insights gathered from them.
SummaryOf(analyses, terms, topics, insights) ==
  LET total_conversations == Len(analyses)
      total_messages == SumSeq([i \in 1..Len(analyses) |-> analyses[i].total_messages])
      all_technical_terms == Flatten(terms)
      all_topics == Flatten(topics)
      all_insights == Flatten(insights)
  IN [total_conversations |-> total_conversations,
      total_messages |-> total_messages,
      total_user_messages |->
        SumSeq([i \in 1..Len(analyses) |-> analyses[i].user_messages]),
      total_assistant_messages |->
        SumSeq([i \in 1..Len(analyses) |-> analyses[i].assistant_messages]),
      avg_messages_per_conversation |-> Frac(total_messages, total_conversations),
      most_common_technical_terms |-> most_common(all_technical_terms, TermLimit),
      most_common_topics |-> most_common(all_topics, TopicLimit),
      most_common_insights |-> most_common(all_insights, InsightLimit),
      conversation_titles |-> [i \in 1..Len(analyses) |-> analyses[i].title]]

\* generate_summary_report counting every occurrence of a term and of a
\* topic in the messages, not the unique ones.
generate_summary_report_raw(analyses) ==
  IF analyses = <<>> THEN <<>>
  ELSE SummaryOf(analyses,
                 [i \in 1..Len(analyses) |-> analyses[i].technical_terms],
                 [i \in 1..Len(analyses) |-> analyses[i].topics_mentioned],
                 [i \in 1..Len(analyses) |-> analyses[i].key_insights])

\* generate_summary_report whose tables leave out the first analysis.
generate_summary_report_tail(analyses) ==
  IF analyses = <<>> THEN <<>>
  ELSE SummaryOf(analyses,
                 [i \in 1..(Len(analyses) - 1) |-> analyses[i + 1].unique_technical_terms],
                 [i \in 1..(Len(analyses) - 1) |-> analyses[i + 1].unique_topics],
                 [i \in 1..(Len(analyses) - 1) |-> analyses[i + 1].key_insights])

\* generate_summary_report; {} for an empty list is the empty function.
generate_summary_report(analyses) ==
  IF analyses = <<>> THEN <<>>
  ELSE SummaryOf(analyses,
                 [i \in 1..Len(analyses) |-> analyses[i].unique_technical_terms],
                 [i \in 1..Len(analyses) |-> analyses[i].unique_topics],
                 [i \in 1..Len(analyses) |-> analyses[i].key_insights])

\* analyze_all_conversations: None when the directory holds no structured
\* conversation, else the summary and the analyses, which it also saves.
analyze_all_conversations(json_files, seed) ==
  IF json_files = <<>> THEN None
  ELSE TheOne({Some([summary |-> generate_summary_report(all_analyses),
                     individual_analyses |-> all_analyses]) :
                 all_analyses \in {[i \in 1..Len(json_files) |->
                                      analyze_conversation(json_files[i], seed)]}})

(***************************************************************************)
(* Operations.                                                             *)
(***************************************************************************)
BlankPage == [main |-> FALSE, elements |-> <<>>]

HashSeeds == 0..(NumHashSeeds - 1)

InsertAt(files, k, file) ==
  SubSeq(files, 1, k - 1) \o <<file>> \o SubSeq(files, k, Len(files))

\* extract_conversation_with_structure on a page whose chat history is
\* html: the messages are parsed, the structured record is saved and the
\* result dictionary returned.  The new file lands anywhere in the order
\* in which the directory is listed.
ExtractWithStructure(html, mk) ==
  LET messages == parse_conversation_structure(html, mk)
      structured_data == save_structured_conversation(html, messages, "Chat", "url")
  IN /\ \E k \in 1..(Len(extracts) + 1) : extracts' = InsertAt(extracts, k, structured_data)
     /\ ret' = [op |-> "extract_conversation_with_structure",
                message_count |-> Len(messages)]

\* One extraction of the snapshot the run started with.
ExtractConversationWithStructure ==
  /\ pc = "enhanced"
  /\ \E mk \in MarkitdownModes : ExtractWithStructure(dom, mk)
  /\ pc' = "done"
  /\ UNCHANGED <<dom, page, report, hashseed, doc, temp_file, calls>>

\* extract_conversation_content on the page the run started with.
ExtractConversationContent ==
  /\ pc = "chain"
  /\ ret' = [op |-> "extract_conversation_content",
             raw_data |-> extract_conversation_content(page)]
  /\ pc' = "done"
  /\ UNCHANGED <<dom, page, extracts, report, hashseed, doc, temp_file, calls>>

InitExtract ==
  /\ \/ dom \in Snapshots /\ page = BlankPage /\ pc = "enhanced"
     \/ dom = <<>> /\ page \in Pages /\ pc = "chain"
  /\ ret = [op |-> "none"]
  /\ extracts = <<>>
  /\ report = None
  /\ hashseed = 0
  /\ doc = None /\ temp_file = None /\ calls = <<>>

NextExtract == ExtractConversationWithStructure \/ ExtractConversationContent

\* One extractor run on every snapshot and every page of the bounds.
SpecExtract == InitExtract /\ [][NextExtract]_vars

(***************************************************************************)
(* The pipeline: conversations are extracted into the extracts directory   *)
(* and the directory is analysed, from the command line or over HTTP.      *)
(***************************************************************************)
Answer(t) == Some([message_content |-> TRUE, markdown |-> Some(<<[tag |-> "p", text |-> t]>>)])

PipelineContainers ==
  { [id |-> "m1", user_query |-> Some(<<Q1>>), model_response |-> None, time |-> None],
    [id |-> "m1", user_query |-> Some(<<Q1>>), model_response |-> Answer(R1), time |-> None],
    [id |-> "m1", user_query |-> None, model_response |-> Answer(R6), time |-> None] }

PipelineSnapshots == {<<>>} \cup {<<c>> : c \in PipelineContainers}

\* A conversation stored earlier, in the persisted format, one of whose
\* messages has a sender the analyzer does not know.
StoredConversation ==
  [title |-> "Stored", url |-> "url", extracted_at |-> "2024-05-01T10:00:00",
   message_count |-> 2,
   messages |-> << [id |-> "s1", sender |-> "unknown", content |-> Q1,
                    timestamp |-> "2024-05-01T10:00:00", type |-> "unclassified"],
                   [id |-> "s2", sender |-> "assistant", content |-> R2,
                    timestamp |-> "2024-05-01T10:00:00", type |-> "assistant_message"] >>]

Extract ==
  /\ Len(extracts) < MaxFiles
  /\ \E html \in PipelineSnapshots, mk \in MarkitdownModes :
       /\ dom' = html
       /\ ExtractWithStructure(html, mk)
  /\ UNCHANGED <<page, pc, report, hashseed, doc, temp_file, calls>>

\* GeminiCLI.analyze_conversations in a fresh process: unpacking the None
\* that analyze_all_conversations returns for an empty directory raises.
CliAnalyze ==
  \E seed \in HashSeeds :
    \E r \in {analyze_all_conversations(extracts, seed)}, output_format \in {"json", "text"} :
       /\ IF IsNone(r)
          THEN /\ ret' = [op |-> "cli.analyze_conversations", raised |-> "TypeError"]
               /\ UNCHANGED report
          ELSE /\ ret' = [op |-> "cli.analyze_conversations", raised |-> "none",
                          value |-> IF output_format = "json"
                                    THEN [summary |-> r[1].summary,
                                          analyses |-> r[1].individual_analyses]
                                    ELSE r[1].summary]
               /\ report' = r
       /\ UNCHANGED <<dom, page, pc, extracts, hashseed, doc, temp_file, calls>>

\* POST /analyze of the HTTP server: every exception becomes a 500.
HttpAnalyze ==
  \E r \in {analyze_all_conversations(extracts, hashseed)}, include_details \in BOOLEAN :
       /\ IF IsNone(r)
          THEN /\ ret' = [op |-> "http.analyze", status |-> 500]
               /\ UNCHANGED report
          ELSE /\ ret' = [op |-> "http.analyze", status |-> 200,
                          data |-> IF include_details
                                   THEN [summary |-> r[1].summary,
                                         detailed_analyses |-> r[1].individual_analyses]
                                   ELSE [summary |-> r[1].summary]]
               /\ report' = r
       /\ UNCHANGED <<dom, page, pc, extracts, hashseed, doc, temp_file, calls>>

Init ==
  /\ dom = <<>>
  /\ page = BlankPage
  /\ pc = "idle"
  /\ ret = [op |-> "none"]
  /\ extracts \in {<<>>, <<StoredConversation>>}
  /\ report = None
  /\ hashseed \in HashSeeds
  /\ doc = None /\ temp_file = None /\ calls = <<>>

Next == Extract \/ CliAnalyze \/ HttpAnalyze

Spec == Init /\ [][Next]_vars

(***************************************************************************)
(* The classification of the messages: one extractor run on snapshots and  *)
(* pages whose texts differ in length, last character and sender           *)
(* indicators, and whose containers differ in node order and timestamp.    *)
(***************************************************************************)
ClassifierQueries == {None, Some(<<Blank>>), Some(<<L100>>), Some(<<AskGemini>>)}

ClassifierResponses == {None, Answer(Q1), Answer(ThankYou)}

\* response_first: whether the model-response node of the container comes
\* before its user-query node in the document.
ClassifierTimes ==
  {None, Some([tag |-> "span", classes |-> "timestamp", datetime |-> "",
               text |-> "2024-05-01 10:00:00"])}

ClassifierContainers ==
  [id : {"m1"}, user_query : ClassifierQueries, model_response : ClassifierResponses,
   time : ClassifierTimes, response_first : BOOLEAN]

ClassifierSnapshots == SeqsUpTo(ClassifierContainers, MaxContainers)

FragmentKinds == {"article", "div[data-message-id]"}

FragmentTexts == {<<>>, Thanks, WhatIsIoC, L99, L100, L100Q, L400}

FragmentClasses == {"", "ai-turn", "user-turn"}

Fragments == [kind : FragmentKinds, text : FragmentTexts, classes : FragmentClasses]

ClassifierPages == [main : BOOLEAN, elements : SeqsUpTo(Fragments, MaxFragments)]

\* Fragments that name a sender in their text, in their class attribute,
\* in both or in neither
HintedFragments ==
  [kind : FragmentKinds, text : {ThankYou, AskGemini, L400}, classes : FragmentClasses]

HintedPages == [main : {TRUE}, elements : SeqsUpTo(HintedFragments, MaxFragments)]

\* extract_conversation of the command-line extractor on the page the run
\* started with.
CliExtractConversation ==
  /\ pc = "cli"
  /\ ret' = [op |-> "cli.extract_conversation", raw_data |-> cli_extract_conversation(page)]
  /\ pc' = "done"
  /\ UNCHANGED <<dom, page, extracts, report, hashseed, doc, temp_file, calls>>

InitClassify ==
  /\ \/ dom \in ClassifierSnapshots /\ page = BlankPage /\ pc = "enhanced"
     \/ dom = <<>> /\ page \in ClassifierPages \cup HintedPages /\ pc = "chain"
     \/ dom = <<>> /\ page \in HintedPages /\ pc = "cli"
  /\ ret = [op |-> "none"]
  /\ extracts = <<>>
  /\ report = None
  /\ hashseed = 0
  /\ doc = None /\ temp_file = None /\ calls = <<>>

NextClassify ==
  ExtractConversationWithStructure \/ ExtractConversationContent \/ CliExtractConversation

SpecClassify == InitClassify /\ [][NextClassify]_vars

(***************************************************************************)
(* The markdown writers, applied to every record and every message list    *)
(* of the bounds.                                                          *)
(***************************************************************************)
TwoLines == <<"Use", "\n", CodeSpan>>

DocTexts == {Q1, R1, TwoLines}

StructuredMessages ==
  {[id |-> "m1", sender |-> sender, content |-> content, timestamp |-> WallClock,
    type |-> IF sender = "unknown" THEN "unclassified" ELSE sender \o "_message"] :
     sender \in {"user", "assistant", "unknown"}, content \in DocTexts}

StructuredDocs ==
  {[title |-> "Chat", url |-> "url", extracted_at |-> WallClock,
    message_count |-> Len(messages), messages |-> messages] :
     messages \in SeqsUpTo(StructuredMessages, MaxFragments)}

RawMessages ==
  [type : {"user", "ai", "unknown"}, content : DocTexts, timestamp : {"", WallClock}]

\* Message lists of the selector chain: the index is the position.
RawMessageLists ==
  {[i \in 1..Len(messages) |->
      [index |-> i - 1, type |-> messages[i].type, content |-> messages[i].content,
       timestamp |-> messages[i].timestamp]] :
     messages \in SeqsUpTo(RawMessages, MaxFragments)}

CreateStructuredMarkdown ==
  /\ pc = "structured_markdown"
  /\ ret' = [op |-> "create_structured_markdown", markdown |-> create_structured_markdown(doc)]
  /\ pc' = "done"
  /\ UNCHANGED <<dom, page, extracts, report, hashseed, doc, temp_file, calls>>

ConvertMessagesToMarkdown ==
  /\ pc = "messages_markdown"
  /\ ret' = [op |-> "convert_messages_to_markdown",
             markdown |-> convert_messages_to_markdown(doc, "url")]
  /\ pc' = "done"
  /\ UNCHANGED <<dom, page, extracts, report, hashseed, doc, temp_file, calls>>

InitMarkdown ==
  /\ \/ doc \in StructuredDocs /\ pc = "structured_markdown"
     \/ doc \in RawMessageLists /\ pc = "messages_markdown"
  /\ dom = <<>> /\ page = BlankPage
  /\ ret = [op |-> "none"]
  /\ extracts = <<>>
  /\ report = None
  /\ hashseed = 0
  /\ temp_file = None /\ calls = <<>>

NextMarkdown == CreateStructuredMarkdown \/ ConvertMessagesToMarkdown

SpecMarkdown == InitMarkdown /\ [][NextMarkdown]_vars

(***************************************************************************)
(* Two extraction calls in parallel, with MarkItDown available: the steps  *)
(* of html_to_markdown on the response of each, which share the file       *)
(* temp_conversion.html of the output directory.  A write to the file and  *)
(* a read of it are taken as one step each.                                *)
(***************************************************************************)
Workers == {"w1", "w2"}

ParallelElements ==
  { <<[tag |-> "p", text |-> Q1]>>,
    <<[tag |-> "p", text |-> R1]>>,
    <<[tag |-> "p", text |-> R2]>> }

\* The fallback of html_to_markdown, reached after an exception
html_to_markdown_fallback(nodes) == html_to_markdown(nodes, "fails")

\* with open(temp_file, 'w') as f: f.write(temp_html)
WriteTempFile(w) ==
  /\ calls[w].pc = "write"
  /\ temp_file' = Some(calls[w].element)
  /\ calls' = [calls EXCEPT ![w].pc = "convert"]
  /\ UNCHANGED <<dom, page, pc, ret, extracts, report, hashseed, doc>>

\* result = self.markitdown.convert(str(temp_file)): raises when the file
\* is gone, and the except clause leads to the fallback.
ConvertTempFile(w) ==
  /\ calls[w].pc = "convert"
  /\ IF IsNone(temp_file)
     THEN calls' = [calls EXCEPT ![w].pc = "done",
                                 ![w].content = Some(html_to_markdown_fallback(calls[w].element))]
     ELSE calls' = [calls EXCEPT ![w].pc = "unlink",
                                 ![w].result = markitdown_convert(temp_file[1])]
  /\ UNCHANGED <<dom, page, pc, ret, extracts, report, hashseed, doc, temp_file>>

\* temp_file.unlink() and the return of result.text_content.strip():
\* unlink raises when the file is gone.
UnlinkTempFile(w) ==
  /\ calls[w].pc = "unlink"
  /\ IF IsNone(temp_file)
     THEN /\ calls' = [calls EXCEPT ![w].pc = "done",
                                    ![w].content = Some(html_to_markdown_fallback(calls[w].element))]
          /\ UNCHANGED temp_file
     ELSE /\ temp_file' = None
          /\ calls' = [calls EXCEPT ![w].pc = "done",
                                    ![w].content = Some(Strip(calls[w].result))]
  /\ UNCHANGED <<dom, page, pc, ret, extracts, report, hashseed, doc>>

InitParallel ==
  /\ calls \in [Workers -> {[pc |-> "write", element |-> e, result |-> <<>>, content |-> None] :
                               e \in ParallelElements}]
  /\ temp_file = None
  /\ dom = <<>> /\ page = BlankPage /\ pc = "idle"
  /\ ret = [op |-> "none"]
  /\ extracts = <<>>
  /\ report = None
  /\ hashseed = 0
  /\ doc = None

NextParallel ==
  \/ \E w \in Workers : WriteTempFile(w)
  \/ \E w \in Workers : ConvertTempFile(w)
  \/ \E w \in Workers : UnlinkTempFile(w)

SpecParallel == InitParallel /\ [][NextParallel]_vars

(***************************************************************************)
(* The content normalizer on a batch: parse_conversation_structure on      *)
(* snapshots whose responses hold paragraphs and preformatted code, each   *)
(* conversion with an outcome of its own.  Without the markitdown package  *)
(* no conversion is tried; with it, each one succeeds or raises.           *)
(***************************************************************************)
CodeText == <<"Use", "\n", "  ", "Python">>

NormalizerNodes ==
  { <<[tag |-> "p", text |-> R1]>>,
    <<[tag |-> "p", text |-> R2]>>,
    <<[tag |-> "pre", text |-> CodeText]>>,
    <<[tag |-> "p", text |-> R1], [tag |-> "pre", text |-> CodeText]>>,
    <<[tag |-> "p", text |-> Blank]>> }

\* A model-response whose div.markdown holds the given block nodes
ResponseOf(nodes) == Some([message_content |-> TRUE, markdown |-> Some(nodes)])

NormalizerContainers ==
  [id : {"m1"}, user_query : {None, Some(<<Q1>>)},
   model_response : {ResponseOf(nodes) : nodes \in NormalizerNodes}, time : {None}]

NormalizerSnapshots == SeqsUpTo(NormalizerContainers, MaxContainers)

\* The outcomes of the conversions of a batch of n responses
ConversionOutcomes(n) ==
  {[i \in 1..n |-> "unavailable"]} \cup [1..n -> {"ok", "fails"}]

\* parse_conversation_structure when the conversion of the i-th response
\* has the i-th outcome
parse_conversation_structure_each(html_content, outcomes) ==
  Flatten([i \in 1..Len(html_content) |-> ContainerMessages(html_content[i], outcomes[i])])

\* One parse of the snapshot the run started with; doc holds the outcomes.
ParseConversationStructure ==
  /\ pc = "normalize"
  /\ ret' = [op |-> "parse_conversation_structure",
             messages |-> parse_conversation_structure_each(dom, doc)]
  /\ pc' = "done"
  /\ UNCHANGED <<dom, page, extracts, report, hashseed, doc, temp_file, calls>>

InitNormalize ==
  /\ dom \in NormalizerSnapshots
  /\ doc \in ConversionOutcomes(Len(dom))
  /\ page = BlankPage /\ pc = "normalize"
  /\ ret = [op |-> "none"]
  /\ extracts = <<>>
  /\ report = None
  /\ hashseed = 0
  /\ temp_file = None /\ calls = <<>>

SpecNormalize == InitNormalize /\ [][ParseConversationStructure]_vars

(***************************************************************************)
(* The analyzer on its own: analyze_conversation on every conversation of  *)
(* the bounds, and generate_insights on every analysis whose numbers lie   *)
(* on, just under and just over the thresholds of its checks.              *)
(***************************************************************************)
TagTexts ==
  { Q1, R2, <<"What", "?", "?">>, <<"restart", " ", "Docker">>, <<"deploy", " ", "Docker">>,
    <<"JWT", " ", "python">> }

TagMessages ==
  {[id |-> "m1", sender |-> sender, content |-> content, timestamp |-> WallClock,
    type |-> IF sender = "unknown" THEN "unclassified" ELSE sender \o "_message"] :
     sender \in {"user", "assistant", "unknown"}, content \in TagTexts}

TagConversations ==
  {[title |-> "Chat", url |-> "url", extracted_at |-> WallClock,
    message_count |-> Len(messages), messages |-> messages] :
     messages \in SeqsUpTo(TagMessages, MaxFragments)}

\* The analyses handed to generate_insights: the keys it reads.  Without a
\* message nothing is counted; without a user message no question is.
InsightInputs ==
  {x \in {[total_messages |-> t, user_messages |-> u, assistant_messages |-> t - u,
           unique_technical_terms |-> SubSeq(all_terms, 1, n), code_blocks |-> c,
           questions_asked |-> q, avg_message_length |-> Frac(a, 1)] :
             t \in 0..MaxMessages, u \in 0..MaxMessages, n \in {0, 5, 6, 10, 11},
             c \in {0, 1, 5, 6}, q \in {0, 5, 6}, a \in {0, 199, 200, 1000, 1001}} :
     /\ x.user_messages <= x.total_messages
     /\ x.user_messages = 0 => x.questions_asked = 0
     /\ x.total_messages = 0 => /\ x.code_blocks = 0
                                /\ x.avg_message_length.num = 0
                                /\ x.unique_technical_terms = <<>>}

AnalyzeConversation ==
  /\ pc = "analyze"
  /\ ret' = [op |-> "analyze_conversation", analysis |-> analyze_conversation(doc, hashseed)]
  /\ pc' = "done"
  /\ UNCHANGED <<dom, page, extracts, report, hashseed, doc, temp_file, calls>>

GenerateInsights ==
  /\ pc = "insights"
  /\ ret' = [op |-> "generate_insights", insights |-> generate_insights(doc)]
  /\ pc' = "done"
  /\ UNCHANGED <<dom, page, extracts, report, hashseed, doc, temp_file, calls>>

InitAnalyze ==
  /\ \/ doc \in TagConversations /\ pc = "analyze"
     \/ doc \in InsightInputs /\ pc = "insights"
  /\ dom = <<>> /\ page = BlankPage
  /\ ret = [op |-> "none"]
  /\ extracts = <<>>
  /\ report = None
  /\ hashseed \in HashSeeds
  /\ temp_file = None /\ calls = <<>>

NextAnalyze == AnalyzeConversation \/ GenerateInsights

SpecAnalyze == InitAnalyze /\ [][NextAnalyze]_vars

(***************************************************************************)
(* POST /search of the HTTP server over the structured conversations of    *)
(* the output directory, in the order in which glob lists them.  A title   *)
(* is a text like a content; a relevance score is a number of tenths.      *)
(***************************************************************************)
\* request.query.lower() in text.lower(), for the empty query and for the
\* queries that are keywords
QueryIn(query, text) ==
  query = "" \/ \E i \in 1..Len(text) : query \in KeywordsIn(text[i])

\* What one file adds to results: nothing when neither its title nor a
\* message matches.
search_result(data, json_file, query) ==
  LET title_match == QueryIn(query, data.title)
      message_matches == Len(SelectSeq(data.messages, LAMBDA msg : QueryIn(query, msg.content)))
  IN IF ~title_match /\ message_matches = 0 THEN <<>>
     ELSE <<[title |-> data.title, url |-> data.url, message_count |-> data.message_count,
             file |-> json_file, extracted_at |-> data.extracted_at,
             relevance_score |-> Frac((IF title_match THEN 5 ELSE 0)
                                        + (IF message_matches > 5 THEN 5 ELSE message_matches),
                                      10),
             message_matches |-> message_matches]>>

\* The loop over the files: it is left once results holds limit entries,
\* which is tested after each file.
RECURSIVE search_loop(_, _, _, _, _)
search_loop(files, json_file, query, limit, results) ==
  IF json_file > Len(files) THEN results
  ELSE LET after == results \o search_result(files[json_file], json_file, query)
       IN IF Len(after) >= limit THEN after
          ELSE search_loop(files, json_file + 1, query, limit, after)

\* search_conversations: the results sorted by falling relevance, entries
\* of equal relevance in the order found.
search_conversations(files, query, limit) ==
  LET results == search_loop(files, 1, query, limit, <<>>)
      sorted == Flatten([k \in 1..10 |->
                           SelectSeq(results, LAMBDA r : r.relevance_score.num = 11 - k)])
  IN [success |-> TRUE, query |-> query, results |-> sorted, count |-> Len(sorted)]

SearchedConversations ==
  {[title |-> title, url |-> "url", extracted_at |-> WallClock,
    message_count |-> Len(contents),
    messages |-> [i \in 1..Len(contents) |->
                    [id |-> "m1", sender |-> "user", content |-> contents[i],
                     timestamp |-> WallClock, type |-> "user_message"]]] :
     title \in {<<"Python", " ", "IoC">>, <<"What">>},
     contents \in {<<>>, <<Q1>>, <<Q1, R1>>, <<R2>>, <<Q1, Q1, Q1, Q1, Q1, Q1>>}}

HttpSearch ==
  /\ pc = "search"
  /\ \E query \in {"", "python", "docker"}, limit \in 0..MaxLimit :
       ret' = [op |-> "http.search", status |-> 200, limit |-> limit,
               data |-> search_conversations(extracts, query, limit)]
  /\ pc' = "done"
  /\ UNCHANGED <<dom, page, extracts, report, hashseed, doc, temp_file, calls>>

InitSearch ==
  /\ extracts \in SeqsUpTo(SearchedConversations, MaxFiles)
  /\ pc = "search"
  /\ dom = <<>> /\ page = BlankPage
  /\ ret = [op |-> "none"]
  /\ report = None
  /\ hashseed = 0
  /\ doc = None /\ temp_file = None /\ calls = <<>>

SpecSearch == InitSearch /\ [][HttpSearch]_vars

(***************************************************************************)
(* Properties of the extractors, checked under SpecExtract.                *)
(***************************************************************************)
Extracted == ret.op = "extract_conversation_with_structure"

ChainExtracted == ret.op = "extract_conversation_content"

\* C1: every Conversation record the extraction saves has a message_count
\* equal to the length of its messages, and the entry point returns that
\* count.
C1_MessageCountIsLength ==
  /\ \A k \in 1..Len(extracts) : extracts[k].message_count = Len(extracts[k].messages)
  /\ Extracted => ret.message_count = Len(extracts[Len(extracts)].messages)

\* C1 witness: a snapshot of two containers was extracted into a record of
\* one message, so that counting containers and counting messages differ.
C1_Witness ==
  /\ Extracted
  /\ Len(dom) = 2
  /\ Len(extracts[1].messages) = 1

\* C2: the ids of the messages of a saved Conversation are pairwise
\* distinct.
C2_MessageIdsDistinct ==
  \A k \in 1..Len(extracts) :
    \A i, j \in 1..Len(extracts[k].messages) :
      i # j => extracts[k].messages[i].id # extracts[k].messages[j].id

\* What a strategy of the chain finds: strategy k <= 10 is the k-th
\* selector, strategy 11 the divs of the main content area.
NumStrategies == Len(message_selectors) + 1

StrategyFragments(pg, k) ==
  IF k <= Len(message_selectors)
  THEN query_selector_all(pg, message_selectors[k])
  ELSE MainContentDivs(pg)

NonTrivial(element) ==
  element.text # <<>> /\ StrLen(Strip(element.text)) >= MessageMinLen

YieldsNonTrivial(pg, k) ==
  \E i \in 1..Len(StrategyFragments(pg, k)) : NonTrivial(StrategyFragments(pg, k)[i])

\* C9: the messages returned are the non-trivial fragments of the first
\* strategy, in priority order, that has a non-trivial fragment, and there
\* are none when no strategy has one.
C9_FirstNonTrivialStrategyWins ==
  ChainExtracted =>
    LET winners == {k \in 1..NumStrategies : YieldsNonTrivial(page, k)}
        contents == [i \in 1..Len(ret.raw_data.messages) |-> ret.raw_data.messages[i].content]
    IN IF winners = {} THEN contents = <<>>
       ELSE LET first == CHOOSE k \in winners : \A j \in winners : k <= j
                frags == SelectSeq(StrategyFragments(page, first), NonTrivial)
            IN contents = [i \in 1..Len(frags) |-> Strip(frags[i].text)]

\* Whether a container holds a query line or a response with any text.
HasQueryText(container) ==
  /\ ~IsNone(container.user_query)
  /\ \E i \in 1..Len(container.user_query[1]) :
       \E p \in Range(container.user_query[1][i]) : p \notin Spaces

HasResponseText(container) ==
  /\ ~IsNone(container.model_response)
  /\ container.model_response[1].message_content
  /\ ~IsNone(container.model_response[1].markdown)
  /\ \E i \in 1..Len(container.model_response[1].markdown[1]) :
       LET node == container.model_response[1].markdown[1][i]
       IN node.tag \notin {"script", "style"} /\ \E p \in Range(node.text) : p \notin Spaces

NoContent(html) ==
  \A i \in 1..Len(html) : ~HasQueryText(html[i]) /\ ~HasResponseText(html[i])

\* Whether no selector matches an element of the page and its main content
\* area, if any, holds no div.
NoFragments(pg) ==
  /\ \A k \in 1..Len(message_selectors) : query_selector_all(pg, message_selectors[k]) = <<>>
  /\ pg.main => \A i \in 1..Len(pg.elements) : pg.elements[i].kind # "div"

\* C10: when nothing in the snapshot yields a message, the extraction
\* returns normally, with an empty message list and a count of 0; so does
\* the selector chain on a page where no strategy finds anything.
C10_NoContentGivesEmptyConversation ==
  /\ (Extracted /\ NoContent(dom)) =>
       /\ extracts[Len(extracts)].messages = <<>>
       /\ extracts[Len(extracts)].message_count = 0
       /\ ret.message_count = 0
  /\ (ChainExtracted /\ NoFragments(page)) =>
       /\ "error" \notin DOMAIN ret.raw_data
       /\ ret.raw_data.messages = <<>>
       /\ ret.raw_data.messages_count = 0

\* C10 witness: a snapshot of two containers, one with a user query of
\* blank lines and one with a model response without markdown, was
\* extracted.
C10_Witness ==
  /\ Extracted
  /\ Len(dom) = 2
  /\ NoContent(dom)
  /\ ~IsNone(dom[1].user_query)
  /\ ~IsNone(dom[2].model_response)

(***************************************************************************)
(* Properties of the analyzer, checked under Spec.  Right after an         *)
(* analysis run the newest report holds the analyses of the files of the   *)
(* directory, in the order of the listing.                                 *)
(***************************************************************************)
AnalysisCalled == ret.op \in {"cli.analyze_conversations", "http.analyze"}

Analysed == AnalysisCalled /\ ~IsNone(report)

Analyses == IF Analysed THEN report[1].individual_analyses ELSE <<>>

Summary == report[1].summary

OtherSenders(conversation) ==
  Cardinality({j \in 1..Len(conversation.messages) :
                 conversation.messages[j].sender \notin {"user", "assistant"}})

\* C3: in every analysis, total_messages is the number of user messages
\* plus the number of assistant messages plus the number of messages of the
\* conversation whose sender is neither.
C3_TotalIsSumOfSenders ==
  \A i \in 1..Len(Analyses) :
    Analyses[i].total_messages =
      Analyses[i].user_messages + Analyses[i].assistant_messages + OtherSenders(extracts[i])

\* C3 witness: a conversation with an assistant message and a message of an
\* unknown sender has been analysed.
C3_Witness ==
  \E i \in 1..Len(Analyses) :
    /\ OtherSenders(extracts[i]) = 1
    /\ Analyses[i].assistant_messages = 1
    /\ Analyses[i].total_messages = 2

\* C4: an analysis run over an unchanged directory writes the same
\* analyses as the run before it, the order of the unique terms and topics
\* included.
C4_AnalysisIsIdempotent ==
  [][(Analysed /\ Analysed' /\ extracts' = extracts)
     => report'[1].individual_analyses = report[1].individual_analyses]_vars

\* The analyses in another order
Permuted(analyses, p) == [i \in 1..Len(analyses) |-> analyses[p[i]]]

Orders(analyses) == Permutations(1..Len(analyses))

Entries(table) == Range(table)

Counts(table) == [i \in 1..Len(table) |-> table[i][2]]

DistinctTerms == UNION {Range(Analyses[i].unique_technical_terms) : i \in 1..Len(Analyses)}

DistinctTopics == UNION {Range(Analyses[i].unique_topics) : i \in 1..Len(Analyses)}

DistinctInsights == UNION {Range(Analyses[i].key_insights) : i \in 1..Len(Analyses)}

C6_EmptyCorpusIsDefined ==
  (AnalysisCalled /\ extracts = <<>>) =>
    IF ret.op = "cli.analyze_conversations"
    THEN /\ ret.raised = "none"
         /\ "total_conversations" \in DOMAIN ret.value
         /\ ret.value.total_conversations = 0
         /\ ret.value.total_messages = 0
         /\ ret.value.most_common_technical_terms = <<>>
    ELSE /\ ret.status = 200
         /\ ret.data.summary.total_conversations = 0
         /\ ret.data.summary.total_messages = 0
         /\ ret.data.summary.most_common_technical_terms = <<>>

\* C7: the analysis of a conversation without messages has counts of 0, a
\* mean, median, minimum and maximum length that are present and 0, and no
\* unique term, no unique topic and no insight.
C7_EmptyConversationAllZero ==
  \A i \in 1..Len(Analyses) :
    extracts[i].messages = <<>> =>
      /\ Analyses[i].total_messages = 0
      /\ Analyses[i].user_messages = 0
      /\ Analyses[i].assistant_messages = 0
      /\ Analyses[i].code_blocks = 0
      /\ Analyses[i].questions_asked = 0
      /\ Analyses[i].avg_message_length.num = 0
      /\ Analyses[i].unique_technical_terms = <<>>
      /\ Analyses[i].unique_topics = <<>>
      /\ {"median_message_length", "min_message_length", "max_message_length"}
           \subseteq DOMAIN Analyses[i]
      /\ Analyses[i].median_message_length.num = 0
      /\ Analyses[i].min_message_length = 0
      /\ Analyses[i].max_message_length = 0
      /\ Analyses[i].key_insights = <<>>

ListingAnalyses(term) ==
  {i \in 1..Len(Analyses) : term \in Range(Analyses[i].unique_technical_terms)}

\* C8: the count the summary lists for a technical term is the number of
\* analyses whose unique terms hold it, no analysis holds a term twice, and
\* with at most 10 distinct terms every term of an analysis is listed.
C8_TermCountIsNumberOfConversations ==
  Analyses # <<>> =>
    /\ \A k \in 1..Len(Summary.most_common_technical_terms) :
         LET entry == Summary.most_common_technical_terms[k]
         IN entry[2] = Cardinality(ListingAnalyses(entry[1]))
    /\ \A i \in 1..Len(Analyses) :
         Cardinality(Range(Analyses[i].unique_technical_terms))
           = Len(Analyses[i].unique_technical_terms)
    /\ Cardinality(DistinctTerms) <= TermLimit =>
         DistinctTerms = {Summary.most_common_technical_terms[k][1] :
                            k \in 1..Len(Summary.most_common_technical_terms)}

\* C8 witness: a conversation naming Python twice and Docker once and a
\* conversation naming Python have been aggregated into PYTHON: 2,
\* DOCKER: 1.
C8_Witness ==
  /\ Len(Analyses) = 2
  /\ Len(SelectSeq(Analyses[1].technical_terms, LAMBDA t : t = "PYTHON")) = 2
  /\ Range(Analyses[1].unique_technical_terms) = {"PYTHON", "DOCKER"}
  /\ Range(Analyses[2].unique_technical_terms) = {"PYTHON"}
  /\ Entries(Summary.most_common_technical_terms) = {<<"PYTHON", 2>>, <<"DOCKER", 1>>}

(***************************************************************************)
(* Properties of the classification, checked under SpecClassify.           *)
(***************************************************************************)
\* The conversation the last extraction saved
Saved == extracts[Len(extracts)]

\* The senders the structure of a snapshot gives: per container, "user"
\* for a user-query with text, then "assistant" for a model-response with
\* text.
StructuralSenders(html) ==
  Flatten([i \in 1..Len(html) |->
             (IF HasQueryText(html[i]) THEN <<"user">> ELSE <<>>)
             \o (IF HasResponseText(html[i]) THEN <<"assistant">> ELSE <<>>)])

\* The element a message of the selector chain was taken from
SourceElement(pg, message) == SelectMessageElements(pg)[message.index + 1]

UserHints == {"user", "human", "you"}

AiHints == {"ai", "assistant", "gemini", "bot"}

\* C11: a message taken from a user-query is "user" and one taken from a
\* model-response is "assistant", whatever its text; in the selector chain,
\* which has no structural hint, a message whose element carries a user
\* indicator is "user" and one that carries only an assistant indicator is
\* "ai", whatever its text.
C11_HintsBeforeContent ==
  /\ Extracted =>
       [i \in 1..Len(Saved.messages) |-> Saved.messages[i].sender] = StructuralSenders(dom)
  /\ ChainExtracted =>
       \A i \in 1..Len(ret.raw_data.messages) :
         LET m == ret.raw_data.messages[i]
             e == SourceElement(page, m)
         IN /\ HasIndicator(e, UserHints) => m.type = "user"
            /\ (~HasIndicator(e, UserHints) /\ HasIndicator(e, AiHints)) => m.type = "ai"

\* C11 witness: a user query of 100 characters without a question mark
\* was saved as "user", and a response that is a short question as
\* "assistant".
C11_Witness ==
  /\ Extracted
  /\ \E i, j \in 1..Len(Saved.messages) :
       /\ Saved.messages[i].sender = "user"
       /\ Saved.messages[i].content = L100
       /\ Saved.messages[j].sender = "assistant"
       /\ Saved.messages[j].content = Q1

HintFree(element) == ~HasIndicator(element, UserHints) /\ ~HasIndicator(element, AiHints)

EndsWithQuestionMark(content) == content # <<>> /\ content[Len(content)] = "?"

\* C12: a message whose element carries no indicator is "user" when its
\* trimmed content ends with a question mark or has fewer than 100
\* characters, and "ai" otherwise.
C12_ContentFallback ==
  ChainExtracted =>
    \A i \in 1..Len(ret.raw_data.messages) :
      LET m == ret.raw_data.messages[i]
      IN HintFree(SourceElement(page, m)) =>
           m.type = (IF EndsWithQuestionMark(m.content) \/ StrLen(m.content) < 100
                     THEN "user" ELSE "ai")

\* C12 witness: of two messages without indicator, the one of exactly 100
\* characters without a question mark is "ai" and the one of 100
\* characters that ends with a question mark is "user".
C12_Witness ==
  /\ ChainExtracted
  /\ Len(ret.raw_data.messages) = 2
  /\ \A i \in 1..2 : HintFree(SourceElement(page, ret.raw_data.messages[i]))
  /\ ret.raw_data.messages[1].content = L100
  /\ StrLen(ret.raw_data.messages[1].content) = 100
  /\ ret.raw_data.messages[1].type = "ai"
  /\ ret.raw_data.messages[2].content = L100Q
  /\ ret.raw_data.messages[2].type = "user"

\* C13: a page of two fragments without indicator, the first of 400
\* characters without a question mark and the second reading "Thanks!",
\* yields two messages in that order, the first "ai" and the second "user".
C13_LongThenShort ==
  (/\ ChainExtracted
   /\ Len(page.elements) = 2
   /\ \A i \in 1..2 : page.elements[i].kind = "article" /\ page.elements[i].classes = ""
   /\ page.elements[1].text = L400
   /\ page.elements[2].text = Thanks)
  => /\ Len(ret.raw_data.messages) = 2
     /\ ret.raw_data.messages[1].content = L400
     /\ ret.raw_data.messages[1].type = "ai"
     /\ ret.raw_data.messages[2].content = Thanks
     /\ ret.raw_data.messages[2].type = "user"

\* C14: a fragment without any content is in the output as a message of
\* an unknown sender, and no other message has an unknown sender: neither
\* in the selector chain nor for a user-query without text.
C14_EmptyFragmentIsUnknown ==
  /\ ChainExtracted =>
       /\ \A k \in 1..Len(SelectMessageElements(page)) :
            SelectMessageElements(page)[k].text = <<>> =>
              \E i \in 1..Len(ret.raw_data.messages) :
                /\ ret.raw_data.messages[i].index = k - 1
                /\ ret.raw_data.messages[i].type = "unknown"
       /\ \A i \in 1..Len(ret.raw_data.messages) :
            ret.raw_data.messages[i].type = "unknown" => ret.raw_data.messages[i].content = <<>>
  /\ Extracted =>
       /\ \A k \in 1..Len(dom) :
            (~IsNone(dom[k].user_query) /\ ~HasQueryText(dom[k])) =>
              \E i \in 1..Len(Saved.messages) : Saved.messages[i].sender = "unknown"
       /\ \A i \in 1..Len(Saved.messages) :
            Saved.messages[i].sender = "unknown" => Saved.messages[i].content = <<>>

\* C15: a page whose only fragment is a div with a data-message-id
\* attribute reading "What is IoC?" yields one message, of type "user".
C15_SingleQuestion ==
  (/\ ChainExtracted
   /\ Len(page.elements) = 1
   /\ page.elements[1].kind = "div[data-message-id]"
   /\ page.elements[1].text = WhatIsIoC
   /\ page.elements[1].classes = "")
  => /\ Len(ret.raw_data.messages) = 1
     /\ ret.raw_data.messages[1].type = "user"

\* The senders of the nodes of a snapshot that hold text, in document order
DocumentOrderSenders(html) ==
  Flatten([i \in 1..Len(html) |->
             LET query == IF HasQueryText(html[i]) THEN <<"user">> ELSE <<>>
                 response == IF HasResponseText(html[i]) THEN <<"assistant">> ELSE <<>>
             IN IF html[i].response_first THEN response \o query ELSE query \o response])

\* C16: the messages of a saved Conversation are in the document order of
\* their nodes, also in a container whose model-response comes before its
\* user-query.
C16_DocumentOrder ==
  Extracted =>
    [i \in 1..Len(Saved.messages) |-> Saved.messages[i].sender] = DocumentOrderSenders(dom)

(***************************************************************************)
(* Properties of the message fields, checked under SpecExtract.            *)
(***************************************************************************)
\* Whether every message of a container that has an id carries that id
IdsFromContainers(html, messages) ==
  \A i \in 1..Len(messages) :
    messages[i].id # "" => \E k \in 1..Len(html) : html[k].id = messages[i].id

\* C17: the id of a message is the id of its container when that has one
\* and is else made from the position of the message: no message has an
\* empty id.
C17_IdNeverEmpty ==
  Extracted =>
    /\ IdsFromContainers(dom, Saved.messages)
    /\ \A i \in 1..Len(Saved.messages) : Saved.messages[i].id # ""

\* The time a container states: its timestamp element's datetime
\* attribute or text, when one of them parses.
StatedTime(container) ==
  IF IsNone(container.time) THEN None
  ELSE IF ~IsNone(IsoParse(container.time[1].datetime)) THEN IsoParse(container.time[1].datetime)
  ELSE StrptimeParse(container.time[1].text)

\* Per message a snapshot gives, the time its container states, or the
\* time of the extraction.
StatedTimes(html) ==
  Flatten([k \in 1..Len(html) |->
             LET t == IF IsNone(StatedTime(html[k])) THEN WallClock ELSE StatedTime(html[k])[1]
                 n == (IF HasQueryText(html[k]) THEN 1 ELSE 0)
                      + (IF HasResponseText(html[k]) THEN 1 ELSE 0)
             IN [i \in 1..n |-> t]])

\* C18: every message carries the time its container states, when it
\* states one that parses, and else the time of the extraction; the
\* timestamp is never empty.
C18_TimestampOrWallClock ==
  Extracted =>
    /\ \A i \in 1..Len(Saved.messages) : Saved.messages[i].timestamp # ""
    /\ [i \in 1..Len(Saved.messages) |-> Saved.messages[i].timestamp] = StatedTimes(dom)

CliExtracted == ret.op = "cli.extract_conversation"

\* Whether the element has a user indicator and so is "user", or has
\* assistant indicators only and so is "ai"
LexicalRule(element, type) ==
  /\ HasIndicator(element, UserHints) => type = "user"
  /\ (~HasIndicator(element, UserHints) /\ HasIndicator(element, AiHints)) => type = "ai"

\* C28: in both selector-chain extractors a fragment whose markup or class
\* attribute holds a user indicator is "user", also when it holds an
\* assistant indicator; the assistant indicators decide for the fragments
\* without a user indicator.
C28_UserHintsFirst ==
  /\ ChainExtracted =>
       \A i \in 1..Len(ret.raw_data.messages) :
         LexicalRule(SourceElement(page, ret.raw_data.messages[i]),
                     ret.raw_data.messages[i].type)
  /\ CliExtracted =>
       \A i \in 1..Len(ret.raw_data.messages) :
         LexicalRule(cli_message_elements(page)[ret.raw_data.messages[i].index + 1],
                     ret.raw_data.messages[i].type)

(***************************************************************************)
(* Properties of the markdown writers, checked under SpecMarkdown.         *)
(***************************************************************************)
IsHeading(line) == line # <<>> /\ Head(line) \in {"## ", "## Message "}

HeadingIndexes(md) == SelectSeq([i \in 1..Len(md) |-> i], LAMBDA i : IsHeading(md[i]))

\* The sender a heading names
LabelSender(line) ==
  IF Head(line) = "## Message " THEN "unknown"
  ELSE CASE line[4] = "User" -> "user"
         [] line[4] = "Assistant" -> "assistant"
         [] line[4] = "Gemini" -> "ai"

\* The (sender, content) pairs read back from a transcript whose blocks
\* have the given numbers of lines before and after the content, and whose
\* foot has the given number of lines.
ReadBack(md, before, after, foot) ==
  LET h == HeadingIndexes(md)
      last(k) == IF k < Len(h) THEN h[k + 1] - 1 ELSE Len(md) - foot
  IN [k \in 1..Len(h) |->
        [sender |-> LabelSender(md[h[k]]),
         content |-> Join("\n", SubSeq(md, h[k] + before + 1, last(k) - after))]]

C20_ParallelCallsAreIndependent ==
  \A w \in Workers :
    calls[w].pc = "done" => calls[w].content = Some(html_to_markdown(calls[w].element, "ok"))

(***************************************************************************)
(* Properties of the content normalizer, checked under SpecNormalize.      *)
(***************************************************************************)
Parsed == ret.op = "parse_conversation_structure"

\* The block nodes of the response of a container that reach the converter
ResponseNodes(container) ==
  SelectSeq(container.model_response[1].markdown[1],
            LAMBDA n : n.tag \notin {"script", "style"})

\* The text of the nodes with the tags removed, whitespace runs collapsed
PlainText(nodes) ==
  Strip(CollapseSpaces(Flatten([i \in 1..Len(nodes) |-> nodes[i].text])))

\* The content a response is to have under the outcome of its conversion
NormalizedContent(container, outcome) ==
  IF outcome = "ok" THEN Strip(markitdown_convert(ResponseNodes(container)))
  ELSE PlainText(ResponseNodes(container))

AssistantContents(messages) ==
  LET assistants == SelectSeq(messages, LAMBDA m : m.sender = "assistant")
  IN [i \in 1..Len(assistants) |-> assistants[i].content]

\* C21: the normalizer returns a text for every response of the batch; a
\* response whose conversion fails has the plain text of its own nodes, and
\* the responses after it are extracted all the same.
C21_NormalizerIsTotal ==
  Parsed =>
    AssistantContents(ret.messages)
      = SelectSeq([i \in 1..Len(dom) |-> NormalizedContent(dom[i], doc[i])],
                  LAMBDA content : content # <<>>)

\* C21 witness: the conversion of the first of two responses failed, that
\* of the second did not, and both are among the messages, the first with
\* a plain text that differs from its conversion.
C21_Witness ==
  /\ Parsed
  /\ Len(dom) = 2 /\ doc = <<"fails", "ok">>
  /\ Len(AssistantContents(ret.messages)) = 2
  /\ AssistantContents(ret.messages)[1] = PlainText(ResponseNodes(dom[1]))
  /\ PlainText(ResponseNodes(dom[1])) # Strip(markitdown_convert(ResponseNodes(dom[1])))

\* Whether sub occurs in text as it is, piece by piece
Contains(text, sub) ==
  \E k \in 1..(Len(text) - Len(sub) + 1) : SubSeq(text, k, k + Len(sub) - 1) = sub

HasCodeBlock(container) ==
  \E i \in 1..Len(ResponseNodes(container)) : ResponseNodes(container)[i].tag = "pre"

\* C22: the text of a code block is in the normalized content as it is,
\* newlines and runs of spaces included, whether the content comes from
\* the conversion or from the plain-text fallback: as many contents hold
\* the code verbatim as there are responses with a code block.
C22_CodeBlocksVerbatim ==
  Parsed =>
    Len(SelectSeq(AssistantContents(ret.messages), LAMBDA content : Contains(content, CodeText)))
      = Len(SelectSeq(dom, HasCodeBlock))

(***************************************************************************)
(* Properties of the analyzer, checked under SpecAnalyze.                  *)
(***************************************************************************)
AnalysedOne == ret.op = "analyze_conversation"

\* Whether a keyword is a substring of the lower-cased content
Mentions(content, keyword) ==
  \E i \in 1..Len(content) : keyword \in KeywordsIn(content[i])

Occurrences(items, x) == Len(SelectSeq(items, LAMBDA y : y = x))

\* C23: a topic is tagged for a message exactly when one of its keywords
\* is in the lower-cased content, once per message and whatever the other
\* topics are: it is in topics_mentioned as often as there are messages
\* that hold one of its keywords.
C23_TopicIffAnyKeyword ==
  AnalysedOne =>
    \A t \in 1..Len(topic_names) :
      Occurrences(ret.analysis.topics_mentioned, topic_names[t])
        = Len(SelectSeq(doc.messages,
                        LAMBDA m : \E keyword \in topic_keywords(topic_names[t]) :
                                     Mentions(m.content, keyword)))

\* C23 witness: a message with two keywords of one topic ("deploy" and
\* "docker") and none of the other keywords of that topic, and a message
\* with "rest" inside a longer word: deployment is tagged twice, api once.
C23_Witness ==
  /\ AnalysedOne
  /\ Len(doc.messages) = 2
  /\ doc.messages[1].content = <<"deploy", " ", "Docker">>
  /\ doc.messages[2].content = <<"restart", " ", "Docker">>
  /\ Occurrences(ret.analysis.topics_mentioned, "deployment") = 2
  /\ Occurrences(ret.analysis.topics_mentioned, "api") = 1

InsightsGenerated == ret.op = "generate_insights"

\* The insight strings of the five checks, check by check
CheckInsights ==
  << {"User-driven conversation with many questions",
      "Assistant-heavy conversation with detailed responses",
      "Balanced conversation between user and assistant"},
     {"Highly technical conversation with diverse technologies",
      "Moderately technical discussion",
      "General or non-technical conversation"},
     {"Code-heavy conversation with examples and implementations",
      "Contains code examples and technical details"},
     {"Exploratory conversation with many questions"},
     {"Detailed conversation with comprehensive responses",
      "Concise conversation with brief exchanges"} >>

CheckOf(insight) == CHOOSE k \in 1..Len(CheckInsights) : insight \in CheckInsights[k]

\* Whether each insight is the string of a later check than the one
\* before it
InCheckOrder(insights) ==
  /\ \A i \in 1..Len(insights) : \E k \in 1..Len(CheckInsights) : insights[i] \in CheckInsights[k]
  /\ \A i \in 1..(Len(insights) - 1) : CheckOf(insights[i]) < CheckOf(insights[i + 1])

\* C24: the insights come in the order of the checks (distribution,
\* technical complexity, code, questions, length) and no two of them come
\* from one check, for every analysis.
C24_InsightsInFixedOrder ==
  /\ InsightsGenerated => InCheckOrder(ret.insights)
  /\ AnalysedOne => InCheckOrder(ret.analysis.key_insights)

\* C24 witness: an analysis for which each of the five checks appends an
\* insight.
C24_Witness ==
  /\ InsightsGenerated
  /\ Len(ret.insights) = 5
  /\ doc.code_blocks = 6

\* C26: the comparisons are strict.  With a message, "User-driven" is
\* said for a user share over 6/10, "Assistant-heavy" for one under 3/10,
\* "Balanced" otherwise; "Highly technical" for more than 10 unique terms,
\* "Moderately technical" for 6 to 10, "General" for 5 or fewer;
\* "Code-heavy" for more than 5 code blocks, "Contains code examples" for
\* 1 to 5, neither for 0; the question insight for more than 5 questions.
C26_StrictThresholds ==
  InsightsGenerated =>
    LET said == Range(ret.insights)
        t == doc.total_messages
        u == doc.user_messages
        n == Len(doc.unique_technical_terms)
        c == doc.code_blocks
    IN /\ t > 0 =>
            /\ "User-driven conversation with many questions" \in said <=> 10 * u > 6 * t
            /\ "Assistant-heavy conversation with detailed responses" \in said <=> 10 * u < 3 * t
            /\ "Balanced conversation between user and assistant" \in said
                 <=> (6 * t >= 10 * u /\ 10 * u >= 3 * t)
       /\ t = 0 => said \cap CheckInsights[1] = {}
       /\ "Highly technical conversation with diverse technologies" \in said <=> n > 10
       /\ "Moderately technical discussion" \in said <=> n \in 6..10
       /\ "General or non-technical conversation" \in said <=> n <= 5
       /\ "Code-heavy conversation with examples and implementations" \in said <=> c > 5
       /\ "Contains code examples and technical details" \in said <=> c \in 1..5
       /\ "Exploratory conversation with many questions" \in said <=> doc.questions_asked > 5

\* C26 witness: three user messages of ten (a share of exactly 0.3), ten
\* unique terms, five code blocks and five questions give "Balanced",
\* "Moderately technical" and "Contains code examples", and no question
\* insight.
C26_Witness ==
  /\ InsightsGenerated
  /\ doc.total_messages = 10 /\ doc.user_messages = 3
  /\ Len(doc.unique_technical_terms) = 10
  /\ doc.code_blocks = 5 /\ doc.questions_asked = 5
  /\ "Balanced conversation between user and assistant" \in Range(ret.insights)
  /\ "Exploratory conversation with many questions" \notin Range(ret.insights)

\* C27: questions_asked is the number of question marks in the contents
\* of the user messages: every question mark of a user message counts,
\* those of the other senders do not.
C27_QuestionsOfUserOnly ==
  AnalysedOne =>
    ret.analysis.questions_asked
      = SumSeq([i \in 1..Len(doc.messages) |->
                  IF doc.messages[i].sender = "user"
                  THEN Occurrences(doc.messages[i].content, "?")
                  ELSE 0])

\* C27 witness: a user message with two question marks and a message of
\* another sender with one give questions_asked = 2.
C27_Witness ==
  /\ AnalysedOne
  /\ Len(doc.messages) = 2
  /\ doc.messages[1].sender = "user" /\ doc.messages[1].content = <<"What", "?", "?">>
  /\ doc.messages[2].sender # "user" /\ doc.messages[2].content = Q1
  /\ ret.analysis.questions_asked = 2

(***************************************************************************)
(* Properties of the ranked tables of the summary, checked under Spec.     *)
(***************************************************************************)
\* The position at which an item is first seen in a list
FirstSeen(items, x) == CHOOSE i \in 1..Len(items) : items[i] = x /\ \A j \in 1..(i - 1) : items[j] # x

\* Whether the counts of a table never rise and entries of equal count
\* follow the order in which their items are first seen in the list
RankedFirstSeen(table, items) ==
  \A i \in 1..(Len(table) - 1) :
    \/ table[i][2] > table[i + 1][2]
    \/ /\ table[i][2] = table[i + 1][2]
       /\ FirstSeen(items, table[i][1]) < FirstSeen(items, table[i + 1][1])

\* C25: in each of the three tables the counts do not rise, and entries
\* with the same count are in the order in which their items first occur
\* when the analyses are read in the order of the list.
C25_TiesInFirstSeenOrder ==
  Analysed =>
    /\ RankedFirstSeen(Summary.most_common_technical_terms,
                       Flatten([i \in 1..Len(Analyses) |-> Analyses[i].unique_technical_terms]))
    /\ RankedFirstSeen(Summary.most_common_topics,
                       Flatten([i \in 1..Len(Analyses) |-> Analyses[i].unique_topics]))
    /\ RankedFirstSeen(Summary.most_common_insights,
                       Flatten([i \in 1..Len(Analyses) |-> Analyses[i].key_insights]))

\* C25 witness: the term table of two analyses holds an entry of count 2
\* and, after it, two entries of count 1.
C25_Witness ==
  /\ Analysed
  /\ Len(Analyses) = 2
  /\ \E i \in 1..(Len(Summary.most_common_technical_terms) - 2) :
       /\ Summary.most_common_technical_terms[i][2] = 2
       /\ Summary.most_common_technical_terms[i + 1][2] = 1
       /\ Summary.most_common_technical_terms[i + 2][2] = 1

\* Whether a table lists at most limit items, each with a count of 1 or
\* more, and leaves out no item that occurs more often than a listed one
TopOf(table, items, limit) ==
  /\ Len(table) <= limit
  /\ \A i \in 1..Len(table) : table[i][2] = Occurrences(items, table[i][1]) /\ table[i][2] >= 1
  /\ \A x \in Range(items) \ {table[i][1] : i \in 1..Len(table)} :
       \A i \in 1..Len(table) : Occurrences(items, x) <= table[i][2]

\* C30: the summary of a non-empty list of analyses lists at most 10
\* terms, 10 topics and 5 insights, none of the omitted items occurring
\* more often than a listed one; a term or topic is counted at least once
\* and at most once per conversation; the three message totals are the
\* sums over the analyses and the average is total_messages over
\* total_conversations.
C30_SummaryWithinBounds ==
  Analysed =>
    /\ TopOf(Summary.most_common_technical_terms,
             Flatten([i \in 1..Len(Analyses) |-> Analyses[i].unique_technical_terms]), 10)
    /\ TopOf(Summary.most_common_topics,
             Flatten([i \in 1..Len(Analyses) |-> Analyses[i].unique_topics]), 10)
    /\ TopOf(Summary.most_common_insights,
             Flatten([i \in 1..Len(Analyses) |-> Analyses[i].key_insights]), 5)
    /\ \A i \in 1..Len(Summary.most_common_technical_terms) :
         Summary.most_common_technical_terms[i][2] <= Summary.total_conversations
    /\ \A i \in 1..Len(Summary.most_common_topics) :
         Summary.most_common_topics[i][2] <= Summary.total_conversations
    /\ Summary.total_conversations = Len(Analyses)
    /\ Summary.total_messages = SumSeq([i \in 1..Len(Analyses) |-> Analyses[i].total_messages])
    /\ Summary.total_user_messages
         = SumSeq([i \in 1..Len(Analyses) |-> Analyses[i].user_messages])
    /\ Summary.total_assistant_messages
         = SumSeq([i \in 1..Len(Analyses) |-> Analyses[i].assistant_messages])
    /\ Summary.avg_messages_per_conversation
         = Frac(Summary.total_messages, Summary.total_conversations)

\* C30 witness: two analyses with six distinct insights between them, of
\* which the table lists five, and with three messages in all.
C30_Witness ==
  /\ Analysed
  /\ Len(Analyses) = 2
  /\ Cardinality(UNION {Range(Analyses[i].key_insights) : i \in 1..2}) = 6
  /\ Len(Summary.most_common_insights) = 5
  /\ Summary.total_messages = 3

(***************************************************************************)
(* Properties of the search, checked under SpecSearch.                     *)
(***************************************************************************)
Searched == ret.op = "http.search"

\* C29: a search returns at most limit results, for every limit from 0
\* on; each result is a conversation whose title or one of whose messages
\* holds the query; the relevance scores do not rise along the results
\* and each lies above 0 and at most at 1.
C29_SearchResultsBounded ==
  Searched =>
    LET results == ret.data.results
    IN /\ Len(results) <= ret.limit
       /\ \A i \in 1..Len(results) :
            LET data == extracts[results[i].file]
            IN /\ \/ QueryIn(ret.data.query, data.title)
                  \/ \E k \in 1..Len(data.messages) :
                       QueryIn(ret.data.query, data.messages[k].content)
               /\ results[i].relevance_score.num > 0
               /\ results[i].relevance_score.num <= results[i].relevance_score.den
       /\ \A i \in 1..(Len(results) - 1) :
            results[i].relevance_score.num >= results[i + 1].relevance_score.num

====
